---------------------------- MODULE Spec2Model ----------------------------
(***************************************************************************)
(* Model of bot.py: a Telegram bot that scores every inbound message with  *)
(* keyword matching, a monetary regular expression and two NLP pipelines,  *)
(* and reports suspicious messages to a developer account.                 *)
(*                                                                         *)
(* Text is a sequence of one-character strings.  The rupee sign U+20B9 is  *)
(* the character written "rupee".  A confidence score is an integer number *)
(* of hundredths (0.8 is 80).  Python's None is NoneValue for environment  *)
(* strings and a message record with isNone = TRUE for message text.       *)
(***************************************************************************)
EXTENDS Integers, Sequences, FiniteSets, TLC

(***************************************************************************)
(* Bounds of the model.                                                    *)
(***************************************************************************)
\* number of message events the transport delivers
MaxEvents == 2
\* number of fragments concatenated into a message text in SpecFn
MaxFrags == 3

Tasks == 1..MaxEvents

(***************************************************************************)
(* Strings.                                                                *)
(***************************************************************************)
ToLower ==
  "A" :> "a" @@ "B" :> "b" @@ "C" :> "c" @@ "D" :> "d" @@ "E" :> "e" @@
  "F" :> "f" @@ "G" :> "g" @@ "H" :> "h" @@ "I" :> "i" @@ "J" :> "j" @@
  "K" :> "k" @@ "L" :> "l" @@ "M" :> "m" @@ "N" :> "n" @@ "O" :> "o" @@
  "P" :> "p" @@ "Q" :> "q" @@ "R" :> "r" @@ "S" :> "s" @@ "T" :> "t" @@
  "U" :> "u" @@ "V" :> "v" @@ "W" :> "w" @@ "X" :> "x" @@ "Y" :> "y" @@
  "Z" :> "z"

\* str.lower()
lower(s) ==
  [i \in 1..Len(s) |-> IF s[i] \in DOMAIN ToLower THEN ToLower[s[i]] ELSE s[i]]

\* Python's `sub in s` on strings
str_in(sub, s) ==
  \E i \in 0..(Len(s) - Len(sub)) : SubSeq(s, i + 1, i + Len(sub)) = sub

\* ', '.join(parts)
RECURSIVE join(_)
join(parts) ==
  IF Len(parts) = 0 THEN <<>>
  ELSE IF Len(parts) = 1 THEN parts[1]
  ELSE parts[1] \o <<",", " ">> \o join(Tail(parts))

Digit == {"0", "1", "2", "3", "4", "5", "6", "7", "8", "9"}

(***************************************************************************)
(* Static keyword lists (bot.py lines 30-36).                              *)
(***************************************************************************)
suspicious_keywords ==
  << <<"I", "C", "O">>,
     <<"p", "u", "m", "p", " ", "a", "n", "d", " ", "d", "u", "m", "p">>,
     <<"g", "e", "t", " ", "r", "i", "c", "h", " ", "q", "u", "i", "c", "k">>,
     <<"p", "h", "i", "s", "h", "i", "n", "g">>,
     <<"d", "o", "u", "b", "l", "e", " ", "y", "o", "u", "r", " ", "m", "o", "n", "e", "y">>,
     <<"h", "i", "g", "h", " ", "r", "e", "t", "u", "r", "n", "s">>,
     <<"g", "u", "a", "r", "a", "n", "t", "e", "e", "d", " ", "p", "r", "o", "f", "i", "t">>,
     <<"c", "r", "y", "p", "t", "o", " ", "m", "i", "n", "i", "n", "g">>,
     <<"i", "n", "v", "e", "s", "t", "m", "e", "n", "t", " ", "o", "p", "p", "o", "r", "t", "u", "n", "i", "t", "y">>,
     <<"b", "i", "n", "a", "r", "y", " ", "o", "p", "t", "i", "o", "n", "s">>,
     <<"n", "o", " ", "r", "i", "s", "k">> >>

urgency_keywords ==
  << <<"a", "c", "t", " ", "n", "o", "w">>,
     <<"l", "i", "m", "i", "t", "e", "d", " ", "t", "i", "m", "e">>,
     <<"u", "r", "g", "e", "n", "t">>,
     <<"o", "n", "l", "y", " ", "t", "o", "d", "a", "y">> >>

(***************************************************************************)
(* find_trigger_keywords (bot.py lines 51-53).                             *)
(***************************************************************************)
\* a faulty variant: the keyword is lowered, the message is not
find_trigger_keywords_message_not_lowered(message, keywords) ==
  SelectSeq(keywords, LAMBDA kw : str_in(lower(kw), message))

find_trigger_keywords(message, keywords) ==
  SelectSeq(keywords, LAMBDA kw : str_in(lower(kw), lower(message)))

(***************************************************************************)
(* extract_monetary_values (bot.py lines 55-57):                           *)
(*   re.findall(r'\$\d+|\d+ USD|₹\d+|\d+ INR', message)               *)
(* re.findall scans left to right; at each position the alternatives are   *)
(* tried in order, \d+ is greedy, and the scan resumes at the end of a     *)
(* match, so the matches returned never overlap.                           *)
(***************************************************************************)
\* length of the run of digits of s that starts at position i
RECURSIVE DigitRun(_, _)
DigitRun(s, i) ==
  IF i >= 1 /\ i <= Len(s) /\ s[i] \in Digit THEN 1 + DigitRun(s, i + 1) ELSE 0

\* the literal lit stands in s at position i
LiteralAt(s, i, lit) ==
  /\ i >= 1
  /\ i + Len(lit) - 1 <= Len(s)
  /\ SubSeq(s, i, i + Len(lit) - 1) = lit

\* length of the match of the pattern anchored at position i, 0 if none
MatchAt(s, i) ==
  LET d  == DigitRun(s, i)
      d1 == DigitRun(s, i + 1)
  IN  IF LiteralAt(s, i, <<"$">>) /\ d1 > 0 THEN 1 + d1
      ELSE IF d > 0 /\ LiteralAt(s, i + d, <<" ", "U", "S", "D">>) THEN d + 4
      ELSE IF LiteralAt(s, i, <<"rupee">>) /\ d1 > 0 THEN 1 + d1
      ELSE IF d > 0 /\ LiteralAt(s, i + d, <<" ", "I", "N", "R">>) THEN d + 4
      ELSE 0

RECURSIVE findall(_, _)
findall(s, i) ==
  IF i > Len(s) THEN <<>>
  ELSE LET n == MatchAt(s, i)
       IN  IF n > 0 THEN <<SubSeq(s, i, i + n - 1)>> \o findall(s, i + n)
           ELSE findall(s, i + 1)

\* the values of xs, each kept the first time it occurs
RECURSIVE distinct(_)
distinct(xs) ==
  IF xs = <<>> THEN <<>>
  ELSE LET front == distinct(SubSeq(xs, 1, Len(xs) - 1))
           last  == xs[Len(xs)]
       IN  IF \E i \in 1..Len(front) : front[i] = last THEN front
           ELSE Append(front, last)

\* a faulty variant: a value that occurs twice is returned once
extract_monetary_values_distinct(message) ==
  distinct(findall(message, 1))

extract_monetary_values(message) ==
  findall(message, 1)

(***************************************************************************)
(* Inputs: environment values, message texts, oracle results.              *)
(***************************************************************************)
\* os.getenv of a variable that is not set
NoneValue == "None"

\* event.message.message is a string, or None for a message without text
NoneMessage == [isNone |-> TRUE, text |-> <<>>]
Text(s) == [isNone |-> FALSE, text |-> s]

\* the message texts an event carries in Spec: none, empty, one no matcher
\* finds anything in, and one with a keyword, an urgency keyword and a value
Messages ==
  { NoneMessage,
    Text(<<>>),
    Text(<<"o", "k">>),
    Text(<<"I", "C", "O", " ", "u", "r", "g", "e", "n", "t", " ", "$", "5">>) }

\* the pieces the message texts of SpecFn are put together from
Frags ==
  { <<"$">>, <<"5">>, <<"$", "7">>, <<" ", "U", "S", "D">>, <<" ", "I", "N", "R">>,
    <<"rupee">>, <<"I", "C", "O">>, <<"i", "c", "o">>, <<" ">>,
    <<"U", "r", "g", "e", "n", "t">> }

\* the texts of section 8 of spec.md
Scenario1Text ==
  <<"G", "u", "a", "r", "a", "n", "t", "e", "e", "d", " ", "p", "r", "o", "f", "i", "t", "!", " ", "A", "c", "t", " ", "n", "o", "w", ",", " ", "s", "e", "n", "d", " ", "$", "5", "0", "0", " ", "t", "o", "d", "a", "y", ".">>

Scenario2Text ==
  <<"L", "e", "t", "'", "s", " ", "m", "e", "e", "t", " ", "f", "o", "r", " ", "c", "o", "f", "f", "e", "e", " ", "t", "o", "m", "o", "r", "r", "o", "w", ".">>

MoneyExampleText ==
  <<"$", "1", "0", "0", " ", "a", "n", "d", " ", "5", "0", " ", "U", "S", "D">>

\* the concatenations of at most n fragments
RECURSIVE TextsUpTo(_)
TextsUpTo(n) ==
  IF n = 0 THEN {<<>>}
  ELSE LET shorter == TextsUpTo(n - 1)
       IN  shorter \cup {p \o f : p \in shorter, f \in Frags}

\* the message texts an event carries in SpecFn
FnMessages ==
  {NoneMessage}
    \cup {Text(s) : s \in TextsUpTo(MaxFrags)}
    \cup {Text(Scenario1Text), Text(Scenario2Text), Text(MoneyExampleText)}

POSITIVE == <<"P", "O", "S", "I", "T", "I", "V", "E">>
NEGATIVE == <<"N", "E", "G", "A", "T", "I", "V", "E">>

\* what sentiment_analyzer(message)[0] may hold
SentimentResults ==
  { [label |-> POSITIVE, score |-> 99],
    [label |-> NEGATIVE, score |-> 60] }

\* what text_classifier(message)[0] may hold
ClassifierResults ==
  { [label |-> NEGATIVE, score |-> 80],
    [label |-> POSITIVE, score |-> 81],
    [label |-> POSITIVE, score |-> 95],
    [label |-> <<"S", "c", "a", "m">>, score |-> 50] }

\* the values an environment variable may have
EnvValues == {NoneValue, "", "12345"}
DeveloperIds == {NoneValue, "", "1001", "1002"}

(***************************************************************************)
(* State.                                                                  *)
(***************************************************************************)
VARIABLES
  config,              \* api_id, api_hash, bot_token, developer_id (lines 16-19)
  phase,               \* how far the module's top-level code and main() ran
  error_logged,        \* logger.error of line 23 happened
  client,              \* the TelegramClient: "none", "constructed", "started"
  pipelines_loaded,    \* sentiment_analyzer and text_classifier exist
  handler_registered,  \* @client.on(events.NewMessage) ran
  running,             \* the handler task that holds the event loop's thread, 0 if none
  pc,                  \* where each handler task stands
  message,             \* event.message.message of each task
  locals,              \* the local variables of process_message of each task
  verdict,             \* how the test of lines 82-83 came out for each task
  calls,               \* how often each task called each function
  sent                 \* the calls of client.send_message, in order

vars ==
  << config, phase, error_logged, client, pipelines_loaded, handler_registered,
     running, pc, message, locals, verdict, calls, sent >>

startup_vars ==
  << config, phase, error_logged, client, pipelines_loaded, handler_registered >>

NoLocals ==
  [ triggered_keywords   |-> <<>>,
    monetary_values      |-> <<>>,
    triggered_urgency    |-> <<>>,
    sentiment_label      |-> <<>>,
    sentiment_score      |-> 0,
    classification_label |-> <<>>,
    classification_score |-> 0 ]

NoCalls ==
  [ find_trigger_keywords   |-> 0,
    extract_monetary_values |-> 0,
    analyze_sentiment       |-> 0,
    analyze_message_with_ai |-> 0 ]

NoTasks ==
  /\ running = 0
  /\ pc = [t \in Tasks |-> "idle"]
  /\ message = [t \in Tasks |-> NoneMessage]
  /\ locals = [t \in Tasks |-> NoLocals]
  /\ verdict = [t \in Tasks |-> "none"]
  /\ calls = [t \in Tasks |-> NoCalls]
  /\ sent = <<>>

\* the process after lines 1-19: the environment has been read
Init ==
  /\ config \in [ api_id : EnvValues, api_hash : EnvValues,
                  bot_token : EnvValues, developer_id : DeveloperIds ]
  /\ phase = "check"
  /\ error_logged = FALSE
  /\ client = "none"
  /\ pipelines_loaded = FALSE
  /\ handler_registered = FALSE
  /\ NoTasks

(***************************************************************************)
(* Startup (bot.py lines 21-43, 90, 123-132).                              *)
(***************************************************************************)
\* truth value of a str or None
truthy(v) ==
  v # NoneValue /\ v # ""

\* a faulty variant: DEVELOPER_ID is left out of the check
all_required_but_developer_id(c) ==
  truthy(c.api_id) /\ truthy(c.api_hash) /\ truthy(c.bot_token)

\* all([api_id, api_hash, bot_token, developer_id])
all_required(c) ==
  truthy(c.api_id) /\ truthy(c.api_hash) /\ truthy(c.bot_token) /\ truthy(c.developer_id)

\* lines 22-24
CheckConfig ==
  /\ phase = "check"
  /\ IF all_required(config)
       THEN /\ phase' = "configured"
            /\ UNCHANGED error_logged
       ELSE /\ phase' = "fatal"
            /\ error_logged' = TRUE
  /\ UNCHANGED << config, client, pipelines_loaded, handler_registered,
                  running, pc, message, locals, verdict, calls, sent >>

\* line 27
ConstructClient ==
  /\ phase = "configured"
  /\ phase' = "client"
  /\ client' = "constructed"
  /\ UNCHANGED << config, error_logged, pipelines_loaded, handler_registered,
                  running, pc, message, locals, verdict, calls, sent >>

\* lines 39-43
LoadPipelines ==
  /\ phase = "client"
  /\ phase' = "pipelines"
  /\ pipelines_loaded' = TRUE
  /\ UNCHANGED << config, error_logged, client, handler_registered,
                  running, pc, message, locals, verdict, calls, sent >>

\* line 90
RegisterHandler ==
  /\ phase = "pipelines"
  /\ phase' = "registered"
  /\ handler_registered' = TRUE
  /\ UNCHANGED << config, error_logged, client, pipelines_loaded,
                  running, pc, message, locals, verdict, calls, sent >>

\* lines 123-132: client.start, then run_until_disconnected
main ==
  /\ phase = "registered"
  /\ phase' = "connected"
  /\ client' = "started"
  /\ UNCHANGED << config, error_logged, pipelines_loaded, handler_registered,
                  running, pc, message, locals, verdict, calls, sent >>

Startup ==
  CheckConfig \/ ConstructClient \/ LoadPipelines \/ RegisterHandler \/ main

(***************************************************************************)
(* The decision and the report (bot.py lines 81-88, 102-121).              *)
(***************************************************************************)
\* a faulty variant: only None is skipped (`message is None`)
not_message_none_only(m) ==
  m.isNone

\* `not message` (line 66)
not_message(m) ==
  m.isNone \/ m.text = <<>>

\* the threshold of line 83, in hundredths
ScoreThreshold == 80

\* a faulty variant: the test also reads the sentiment label
suspicious_reads_sentiment(l) ==
  \/ l.triggered_keywords # <<>>
  \/ l.monetary_values # <<>>
  \/ l.triggered_urgency # <<>>
  \/ lower(l.classification_label) = <<"s", "c", "a", "m">>
  \/ l.classification_score > ScoreThreshold
  \/ l.sentiment_label = NEGATIVE

\* a faulty variant: the threshold is met by a score equal to it
suspicious_at_threshold(l) ==
  \/ l.triggered_keywords # <<>>
  \/ l.monetary_values # <<>>
  \/ l.triggered_urgency # <<>>
  \/ lower(l.classification_label) = <<"s", "c", "a", "m">>
  \/ l.classification_score >= ScoreThreshold

\* the condition of lines 82-83 over the locals of process_message
suspicious(l) ==
  \/ l.triggered_keywords # <<>>
  \/ l.monetary_values # <<>>
  \/ l.triggered_urgency # <<>>
  \/ lower(l.classification_label) = <<"s", "c", "a", "m">>
  \/ l.classification_score > ScoreThreshold

\* `', '.join(xs) if xs else 'None'` (lines 105-107)
list_or_none(xs) ==
  IF xs # <<>> THEN join(xs) ELSE <<"N", "o", "n", "e">>

\* the fields the template of lines 109-119 is filled with; a score of
\* hundredths is its own rendering under :.2f
alert_message(m, l) ==
  [ message        |-> m.text,
    keywords_list  |-> list_or_none(l.triggered_keywords),
    monetary_list  |-> list_or_none(l.monetary_values),
    urgency_list   |-> list_or_none(l.triggered_urgency),
    sentiment      |-> <<l.sentiment_label, l.sentiment_score>>,
    classification |-> <<l.classification_label, l.classification_score>> ]

\* a faulty variant: an alert whose text was sent before is not sent again
report_deduplicated(t, m, l) ==
  IF \E i \in 1..Len(sent) : sent[i].text = alert_message(m, l)
    THEN sent
    ELSE Append(sent, [to |-> config.developer_id, text |-> alert_message(m, l), task |-> t])

\* report_suspicious_activity: the calls of client.send_message after line 121
report_suspicious_activity(t, m, l) ==
  Append(sent, [to |-> config.developer_id, text |-> alert_message(m, l), task |-> t])

(***************************************************************************)
(* The handler task of one message event (bot.py lines 64-100).  The      *)
(* event loop is single-threaded: a task runs from one await that suspends *)
(* to the next, and analyze_sentiment and analyze_message_with_ai are      *)
(* plain calls, so the task holds the thread (running = t) through them.   *)
(***************************************************************************)
\* the pc values at which a task is suspended in an await
Suspended == {"get_chat", "get_sender", "send_message"}
\* the pc values at which a task is inside an oracle call
InOracle == {"analyze_sentiment", "analyze_message_with_ai"}

\* lines 91-93: the event loop starts the handler of the next event, which
\* suspends in event.get_chat()
handler(t, m) ==
  /\ phase = "connected"
  /\ handler_registered
  /\ running = 0
  /\ pc[t] = "idle"
  /\ \A u \in Tasks : u < t => pc[u] # "idle"
  /\ pc' = [pc EXCEPT ![t] = "get_chat"]
  /\ message' = [message EXCEPT ![t] = m]
  /\ UNCHANGED << startup_vars, running, locals, verdict, calls, sent >>

\* lines 93-94: get_chat returned, the handler suspends in event.get_sender()
get_chat_returns(t) ==
  /\ running = 0
  /\ pc[t] = "get_chat"
  /\ pc' = [pc EXCEPT ![t] = "get_sender"]
  /\ UNCHANGED << startup_vars, running, message, locals, verdict, calls, sent >>

\* a faulty variant: a message the matchers find a trigger in is reported
\* without asking the oracles
process_message_short_circuit(t) ==
  /\ running = 0
  /\ pc[t] = "get_sender"
  /\ IF not_message(message[t])
       THEN /\ pc' = [pc EXCEPT ![t] = "done"]
            /\ UNCHANGED << running, locals, calls, verdict, sent >>
       ELSE LET l == [locals[t] EXCEPT
                  !.triggered_keywords =
                      find_trigger_keywords(message[t].text, suspicious_keywords),
                  !.monetary_values = extract_monetary_values(message[t].text),
                  !.triggered_urgency =
                      find_trigger_keywords(message[t].text, urgency_keywords)]
            IN  /\ locals' = [locals EXCEPT ![t] = l]
                /\ IF suspicious(l)
                     THEN /\ calls' = [calls EXCEPT
                               ![t].find_trigger_keywords = @ + 2,
                               ![t].extract_monetary_values = @ + 1]
                          /\ verdict' = [verdict EXCEPT ![t] = "suspicious"]
                          /\ sent' = report_suspicious_activity(t, message[t], l)
                          /\ pc' = [pc EXCEPT ![t] = "send_message"]
                          /\ UNCHANGED running
                     ELSE /\ calls' = [calls EXCEPT
                               ![t].find_trigger_keywords = @ + 2,
                               ![t].extract_monetary_values = @ + 1,
                               ![t].analyze_sentiment = @ + 1]
                          /\ pc' = [pc EXCEPT ![t] = "analyze_sentiment"]
                          /\ running' = t
                          /\ UNCHANGED << verdict, sent >>
  /\ UNCHANGED << startup_vars, message >>

\* lines 94-100 and 64-76: get_sender returned; process_message returns at
\* once on a message without text, or runs the matchers and calls
\* analyze_sentiment
process_message(t) ==
  /\ running = 0
  /\ pc[t] = "get_sender"
  /\ IF not_message(message[t])
       THEN /\ pc' = [pc EXCEPT ![t] = "done"]
            /\ UNCHANGED << running, locals, calls >>
       ELSE /\ locals' = [locals EXCEPT
                 ![t].triggered_keywords =
                     find_trigger_keywords(message[t].text, suspicious_keywords),
                 ![t].monetary_values = extract_monetary_values(message[t].text),
                 ![t].triggered_urgency =
                     find_trigger_keywords(message[t].text, urgency_keywords)]
            /\ calls' = [calls EXCEPT
                 ![t].find_trigger_keywords = @ + 2,
                 ![t].extract_monetary_values = @ + 1,
                 ![t].analyze_sentiment = @ + 1]
            /\ pc' = [pc EXCEPT ![t] = "analyze_sentiment"]
            /\ running' = t
  /\ UNCHANGED << startup_vars, message, verdict, sent >>

\* lines 59-62 and 76-77: the sentiment pipeline returns r; the classifier
\* is called
analyze_sentiment_returns(t, r) ==
  /\ running = t
  /\ pc[t] = "analyze_sentiment"
  /\ locals' = [locals EXCEPT ![t].sentiment_label = r.label,
                              ![t].sentiment_score = r.score]
  /\ calls' = [calls EXCEPT ![t].analyze_message_with_ai = @ + 1]
  /\ pc' = [pc EXCEPT ![t] = "analyze_message_with_ai"]
  /\ UNCHANGED << startup_vars, running, message, verdict, sent >>

\* lines 46-49 and 77-88, 102-121: the classifier returns r; the message is
\* judged, and a suspicious one is reported: the task suspends in
\* client.send_message
analyze_message_with_ai_returns(t, r) ==
  /\ running = t
  /\ pc[t] = "analyze_message_with_ai"
  /\ LET l == [locals[t] EXCEPT !.classification_label = r.label,
                                !.classification_score = r.score]
     IN  /\ locals' = [locals EXCEPT ![t] = l]
         /\ IF suspicious(l)
              THEN /\ verdict' = [verdict EXCEPT ![t] = "suspicious"]
                   /\ sent' = report_suspicious_activity(t, message[t], l)
                   /\ pc' = [pc EXCEPT ![t] = "send_message"]
              ELSE /\ verdict' = [verdict EXCEPT ![t] = "not suspicious"]
                   /\ UNCHANGED sent
                   /\ pc' = [pc EXCEPT ![t] = "done"]
  /\ running' = 0
  /\ UNCHANGED << startup_vars, message, calls >>

\* a faulty variant: before the exception is passed on, what the matchers
\* found is reported
oracle_raises_reports_partial(t) ==
  /\ running = t
  /\ pc[t] \in InOracle
  /\ pc' = [pc EXCEPT ![t] = "failed"]
  /\ running' = 0
  /\ sent' = IF suspicious(locals[t])
               THEN report_suspicious_activity(t, message[t], locals[t])
               ELSE sent
  /\ UNCHANGED << startup_vars, message, locals, verdict, calls >>

\* line 61 or line 48 raises: the exception leaves process_message and the
\* handler, and the task ends
oracle_raises(t) ==
  /\ running = t
  /\ pc[t] \in InOracle
  /\ pc' = [pc EXCEPT ![t] = "failed"]
  /\ running' = 0
  /\ UNCHANGED << startup_vars, message, locals, verdict, calls, sent >>

\* line 121: client.send_message returned, the handler returns
send_message_returns(t) ==
  /\ running = 0
  /\ pc[t] = "send_message"
  /\ pc' = [pc EXCEPT ![t] = "done"]
  /\ UNCHANGED << startup_vars, running, message, locals, verdict, calls, sent >>

\* the steps of task t; M is the set of messages an event may carry
TaskStep(t, M) ==
  \/ (pc[t] = "idle" /\ \E m \in M : handler(t, m))
  \/ get_chat_returns(t)
  \/ process_message(t)
  \/ \E r \in SentimentResults : analyze_sentiment_returns(t, r)
  \/ \E r \in ClassifierResults : analyze_message_with_ai_returns(t, r)
  \/ oracle_raises(t)
  \/ send_message_returns(t)

Next ==
  \/ Startup
  \/ \E t \in Tasks : TaskStep(t, Messages)

Spec == Init /\ [][Next]_vars

(***************************************************************************)
(* SpecFn: one message event of a running bot, its text drawn from         *)
(* FnMessages; the functions of lines 46-62 are applied by the handler.    *)
(***************************************************************************)
InitFn ==
  /\ config = [ api_id |-> "12345", api_hash |-> "12345",
                bot_token |-> "12345", developer_id |-> "1001" ]
  /\ phase = "connected"
  /\ error_logged = FALSE
  /\ client = "started"
  /\ pipelines_loaded = TRUE
  /\ handler_registered = TRUE
  /\ NoTasks

NextFn ==
  TaskStep(1, FnMessages)

SpecFn == InitFn /\ [][NextFn]_vars

(***************************************************************************)
(* Vocabulary of the properties, defined apart from the code above.        *)
(***************************************************************************)
\* the same character, or the upper-case and lower-case form of one letter
SameLetter(a, b) ==
  \/ a = b
  \/ a \in DOMAIN ToLower /\ ToLower[a] = b
  \/ b \in DOMAIN ToLower /\ ToLower[b] = a

SameIgnoringCase(a, b) ==
  /\ Len(a) = Len(b)
  /\ \A i \in 1..Len(a) : SameLetter(a[i], b[i])

\* kw occurs in text as a substring, letter case ignored
OccursIgnoringCase(kw, text) ==
  \E i \in 0..(Len(text) - Len(kw)) :
    \A j \in 1..Len(kw) : SameLetter(text[i + j], kw[j])

\* the message of task t is a text of at least one character
HasText(t) ==
  ~message[t].isNone /\ message[t].text # <<>>

\* process_message of task t ran the matchers
Matched(t) ==
  pc[t] \in {"analyze_sentiment", "analyze_message_with_ai", "send_message",
             "done", "failed"} /\ HasText(t)

\* both oracle calls of task t returned
Judged(t) ==
  pc[t] \in {"send_message", "done"} /\ HasText(t)

\* the positions of sent that are calls made for task t
SendsOf(t) ==
  {i \in 1..Len(sent) : sent[i].task = t}

\* task t is not waiting for any other task
ReadyToRun(t) ==
  \/ pc[t] \in Suspended /\ running = 0
  \/ pc[t] \in InOracle /\ running = t
  \/ /\ pc[t] = "idle"
     /\ running = 0
     /\ phase = "connected"
     /\ \A u \in Tasks : u < t => pc[u] # "idle"

\* the handler of task t was started and has not ended
Unfinished(t) ==
  pc[t] \in Suspended \cup InOracle

\* a step of task t after its handler was started
TaskProgress(t) ==
  \/ get_chat_returns(t)
  \/ process_message(t)
  \/ \E r \in SentimentResults : analyze_sentiment_returns(t, r)
  \/ \E r \in ClassifierResults : analyze_message_with_ai_returns(t, r)
  \/ oracle_raises(t)
  \/ send_message_returns(t)

(***************************************************************************)
(* C1                                                                      *)
(***************************************************************************)
\* C1: a message with text whose two oracle calls returned is judged
\* suspicious, and reported, exactly when a keyword was triggered, a monetary
\* value was extracted, an urgency keyword was triggered, the classification
\* label is "scam" in any letter case, or the confidence is above 0.8
C1_VerdictIsDisjunction ==
  \A t \in Tasks :
    Judged(t) =>
      LET l == locals[t]
          signal ==
            \/ Len(l.triggered_keywords) > 0
            \/ Len(l.monetary_values) > 0
            \/ Len(l.triggered_urgency) > 0
            \/ SameIgnoringCase(l.classification_label, <<"s", "c", "a", "m">>)
            \/ l.classification_score > 80
      IN  /\ verdict[t] = IF signal THEN "suspicious" ELSE "not suspicious"
          /\ signal <=> SendsOf(t) # {}

\* a confidence of exactly 0.8, a label other than scam and no other signal:
\* judged not suspicious, nothing sent
C1_Witness ==
  /\ pc[1] = "done"
  /\ message[1] = Text(Scenario2Text)
  /\ locals[1].classification_label = NEGATIVE
  /\ locals[1].classification_score = 80
  /\ locals[1].triggered_keywords = <<>>
  /\ locals[1].monetary_values = <<>>
  /\ locals[1].triggered_urgency = <<>>
  /\ verdict[1] = "not suspicious"
  /\ sent = <<>>

(***************************************************************************)
(* C2                                                                      *)
(***************************************************************************)
\* C2: for an event whose text is None or empty no matcher runs, no oracle
\* is called and nothing is sent; as long as only such events were handled,
\* no call at all has been made
C2_NoTextNoAnalysis ==
  /\ \A t \in Tasks :
       (pc[t] # "idle" /\ (message[t].isNone \/ Len(message[t].text) = 0)) =>
         /\ pc[t] \in {"get_chat", "get_sender", "done"}
         /\ calls[t] = NoCalls
         /\ locals[t] = NoLocals
         /\ verdict[t] = "none"
         /\ SendsOf(t) = {}
         /\ running # t
  /\ (\A t \in Tasks : message[t].isNone \/ Len(message[t].text) = 0) =>
       /\ sent = <<>>
       /\ \A t \in Tasks : calls[t] = NoCalls

\* an event with None and an event with the empty string were both handled
C2_Witness ==
  /\ pc[1] = "done" /\ message[1] = NoneMessage
  /\ pc[2] = "done" /\ message[2] = Text(<<>>)
  /\ sent = <<>>
  /\ calls[1] = NoCalls /\ calls[2] = NoCalls

(***************************************************************************)
(* C3                                                                      *)
(***************************************************************************)
\* C3: client.send_message has been called once for every message judged
\* suspicious and for no other, always with developer_id as the recipient
C3_OneSendPerSuspicious ==
  /\ Len(sent) = Cardinality({t \in Tasks : verdict[t] = "suspicious"})
  /\ \A i \in 1..Len(sent) :
       /\ sent[i].to = config.developer_id
       /\ sent[i].task \in Tasks
       /\ sent[i].text.message = message[sent[i].task].text
  /\ \A t \in Tasks :
       Cardinality(SendsOf(t)) = IF verdict[t] = "suspicious" THEN 1 ELSE 0

\* two events with the same text and the same oracle results: two sends of
\* the same alert text
C3_Witness ==
  /\ pc[1] = "done" /\ pc[2] = "done"
  /\ message[1] = message[2]
  /\ verdict[1] = "suspicious" /\ verdict[2] = "suspicious"
  /\ Len(sent) = 2
  /\ sent[1].text = sent[2].text
  /\ sent[1].to = "1002"

(***************************************************************************)
(* C4                                                                      *)
(***************************************************************************)
\* C4, in a state: a task whose oracle call raised has no verdict and no
\* alert, made each oracle call at most once, and has given up the thread:
\* every task that waits for no other task can take its next step, and as
\* long as a handler has not ended some handler can go on
C4_FailureState ==
  /\ \A t \in Tasks :
       /\ calls[t].analyze_sentiment <= 1
       /\ calls[t].analyze_message_with_ai <= 1
       /\ pc[t] = "failed" =>
            /\ verdict[t] = "none"
            /\ SendsOf(t) = {}
            /\ running # t
            /\ calls[t].analyze_sentiment = 1
  /\ (\E t \in Tasks : pc[t] = "failed") =>
       /\ \A u \in Tasks : ReadyToRun(u) => ENABLED TaskStep(u, Messages)
       /\ (\E u \in Tasks : Unfinished(u)) =>
            \E u \in Tasks : Unfinished(u) /\ ENABLED TaskProgress(u)

\* C4: the above holds in every state, and a failed task stays failed: it
\* calls no oracle again and sends nothing later
C4_OracleFailureEndsOnlyThatMessage ==
  /\ []C4_FailureState
  /\ [][\A t \in Tasks :
          pc[t] = "failed" =>
            /\ pc'[t] = "failed"
            /\ calls'[t] = calls[t]
            /\ SendsOf(t)' = {}]_vars

\* the first message held a keyword, an urgency keyword and a monetary value
\* and its classifier call raised; the later message was then handled to the
\* end and its alert sent
C4_Witness ==
  /\ pc[1] = "failed"
  /\ calls[1].analyze_message_with_ai = 1
  /\ Len(locals[1].triggered_keywords) > 0
  /\ Len(locals[1].triggered_urgency) > 0
  /\ Len(locals[1].monetary_values) > 0
  /\ pc[2] = "done"
  /\ verdict[2] = "suspicious"
  /\ Len(sent) = 1
  /\ sent[1].task = 2

(***************************************************************************)
(* C5                                                                      *)
(***************************************************************************)
\* C5: while a handler is inside an oracle call, the event loop can start
\* the handler of the next event and can resume every suspended handler
C5_LoopRunsDuringOracleCall ==
  \A t \in Tasks :
    pc[t] \in InOracle =>
      \A u \in Tasks \ {t} :
        /\ (pc[u] = "idle" /\ \A w \in Tasks : w < u => pc[w] # "idle") =>
             ENABLED (\E m \in Messages : handler(u, m))
        /\ pc[u] = "get_chat" => ENABLED get_chat_returns(u)
        /\ pc[u] = "get_sender" => ENABLED process_message(u)
        /\ pc[u] = "send_message" => ENABLED send_message_returns(u)

(***************************************************************************)
(* C6                                                                      *)
(***************************************************************************)
\* one of the four settings is None or the empty string
SettingMissing ==
  \E k \in {"api_id", "api_hash", "bot_token", "developer_id"} :
    config[k] = NoneValue \/ config[k] = ""

\* C6: with a setting missing the process logs an error and stops before the
\* client is constructed, a pipeline is loaded, the handler is registered or
\* an event is handled; with all four set it does not stop before it connects
C6_MissingSettingIsFatal ==
  /\ SettingMissing =>
       /\ phase \in {"check", "fatal"}
       /\ client = "none"
       /\ ~pipelines_loaded
       /\ ~handler_registered
       /\ \A t \in Tasks : pc[t] = "idle" /\ calls[t] = NoCalls
       /\ sent = <<>>
       /\ phase = "check" => ENABLED CheckConfig
       /\ phase = "fatal" => error_logged /\ ~ENABLED Next
  /\ ~SettingMissing =>
       /\ phase # "fatal"
       /\ ~error_logged
       /\ phase # "connected" => ENABLED Startup
  /\ client = "started" <=> phase = "connected"

\* only DEVELOPER_ID is empty: the process stopped with the error logged
C6_Witness ==
  /\ phase = "fatal"
  /\ error_logged
  /\ config.developer_id = ""
  /\ config.api_id # NoneValue /\ config.api_id # ""
  /\ config.api_hash # NoneValue /\ config.api_hash # ""
  /\ config.bot_token # NoneValue /\ config.bot_token # ""
  /\ client = "none"

(***************************************************************************)
(* C7                                                                      *)
(***************************************************************************)
\* the entries of keywords that occur in text, letter case ignored, in the
\* order of the list
Occurring(text, keywords) ==
  SelectSeq(keywords, LAMBDA kw : OccursIgnoringCase(kw, text))

\* C7: the triggered lists are exactly the entries of the static lists that
\* occur in the text in any letter case, and a text in which a suspicious
\* keyword occurs is judged suspicious with that keyword in the list
C7_KeywordsCaseInsensitive ==
  \A t \in Tasks :
    Matched(t) =>
      LET found  == locals[t].triggered_keywords
          occurs == Occurring(message[t].text, suspicious_keywords)
      IN  /\ found = occurs
          /\ locals[t].triggered_urgency = Occurring(message[t].text, urgency_keywords)
          /\ \A i \in 1..Len(found) :
               \E k \in 1..Len(suspicious_keywords) : found[i] = suspicious_keywords[k]
          /\ \A k \in 1..Len(occurs) :
               /\ \E i \in 1..Len(found) : found[i] = occurs[k]
               /\ verdict[t] # "none" => verdict[t] = "suspicious"

\* "ico" in lower case triggers the keyword "ICO" and nothing else, the
\* classifier gives no signal, and the message is reported
C7_Witness ==
  /\ message[1] = Text(<<"i", "c", "o">>)
  /\ locals[1].triggered_keywords = << <<"I", "C", "O">> >>
  /\ locals[1].triggered_urgency = <<>>
  /\ locals[1].monetary_values = <<>>
  /\ locals[1].classification_label = NEGATIVE
  /\ locals[1].classification_score = 80
  /\ verdict[1] = "suspicious"
  /\ Len(sent) = 1

(***************************************************************************)
(* C8                                                                      *)
(***************************************************************************)
\* the number of digits that stand in s from position i on
DigitsFrom(s, i) ==
  CHOOSE n \in 0..(Len(s) + 1 - i) :
    /\ \A j \in i..(i + n - 1) : s[j] \in Digit
    /\ i + n > Len(s) \/ s[i + n] \notin Digit

\* s holds the characters of lit from position i on
Holds(s, i, lit) ==
  /\ i + Len(lit) - 1 <= Len(s)
  /\ \A j \in 1..Len(lit) : s[i + j - 1] = lit[j]

\* the length of the monetary value that starts at position i of s, 0 if none
\* does: "$" or the rupee sign before a digit sequence, or a digit sequence
\* before " USD" or " INR"
MonetaryAt(s, i) ==
  IF s[i] \in {"$", "rupee"}
    THEN IF i < Len(s) /\ s[i + 1] \in Digit THEN 1 + DigitsFrom(s, i + 1) ELSE 0
  ELSE IF s[i] \in Digit /\ (i = 1 \/ s[i - 1] \notin Digit)
    THEN LET n == DigitsFrom(s, i)
         IN  IF \/ Holds(s, i + n, <<" ", "U", "S", "D">>)
                \/ Holds(s, i + n, <<" ", "I", "N", "R">>)
               THEN n + 4 ELSE 0
  ELSE 0

\* the monetary values of s from position i on, in order of appearance
RECURSIVE Occurrences(_, _)
Occurrences(s, i) ==
  IF i > Len(s) THEN <<>>
  ELSE (IF MonetaryAt(s, i) > 0
          THEN << [at |-> i, len |-> MonetaryAt(s, i)] >> ELSE <<>>)
       \o Occurrences(s, i + 1)

\* occ without the occurrences that begin before position free or inside an
\* occurrence kept before them
RECURSIVE NotOverlapping(_, _)
NotOverlapping(occ, free) ==
  IF occ = <<>> THEN <<>>
  ELSE IF Head(occ).at >= free
    THEN <<Head(occ)>> \o NotOverlapping(Tail(occ), Head(occ).at + Head(occ).len)
  ELSE NotOverlapping(Tail(occ), free)

\* the substrings of s at the occurrences occ
Substrings(s, occ) ==
  [k \in 1..Len(occ) |-> SubSeq(s, occ[k].at, occ[k].at + occ[k].len - 1)]

\* C8 as stated: the monetary values are all the substrings of the text that
\* match the pattern, in order of appearance
C8_AllMatchingSubstrings ==
  \A t \in Tasks :
    Matched(t) =>
      locals[t].monetary_values =
        Substrings(message[t].text, Occurrences(message[t].text, 1))

\* C8 amended: the monetary values are the substrings that match the pattern,
\* in order of appearance and once for each occurrence, except those that
\* overlap a value returned before them; "$100 and 50 USD" gives "$100" and
\* "50 USD"
C8_MatchesThatDoNotOverlap ==
  \A t \in Tasks :
    Matched(t) =>
      /\ locals[t].monetary_values =
           Substrings(message[t].text,
                      NotOverlapping(Occurrences(message[t].text, 1), 1))
      /\ message[t].text = MoneyExampleText =>
           locals[t].monetary_values =
             << <<"$", "1", "0", "0">>, <<"5", "0", " ", "U", "S", "D">> >>

\* the example of the claim has been extracted from
C8_Witness ==
  /\ pc[1] = "done"
  /\ message[1] = Text(MoneyExampleText)
  /\ locals[1].monetary_values =
       << <<"$", "1", "0", "0">>, <<"5", "0", " ", "U", "S", "D">> >>

(***************************************************************************)
(* C9                                                                      *)
(***************************************************************************)
\* C9 as stated: for every message with text, once its handling has ended,
\* each of the two oracles has been called exactly once
C9_BothOraclesOnceForEveryText ==
  \A t \in Tasks :
    (HasText(t) /\ pc[t] \in {"send_message", "done", "failed"}) =>
      /\ calls[t].analyze_sentiment = 1
      /\ calls[t].analyze_message_with_ai = 1

\* C9 amended: for every message with text the sentiment oracle is called
\* exactly once and, if that call returns, the classifier exactly once (not
\* at all if it raises), whatever the matchers found; a verdict or an alert
\* exists only after both calls returned
C9_OraclesOnceUnlessSentimentRaises ==
  \A t \in Tasks :
    /\ Matched(t) =>
         /\ calls[t].find_trigger_keywords = 2
         /\ calls[t].extract_monetary_values = 1
         /\ calls[t].analyze_sentiment = 1
         /\ calls[t].analyze_message_with_ai =
              IF Len(locals[t].sentiment_label) > 0 THEN 1 ELSE 0
         /\ (pc[t] = "failed" \/ pc[t] \in InOracle) <=> verdict[t] = "none"
    /\ (verdict[t] # "none" \/ SendsOf(t) # {}) =>
         /\ calls[t].analyze_sentiment = 1
         /\ calls[t].analyze_message_with_ai = 1
         /\ Len(locals[t].sentiment_label) > 0
         /\ Len(locals[t].classification_label) > 0

\* the matchers found a keyword, an urgency keyword and a value, and still
\* both oracles were called, once each, before the alert
C9_Witness ==
  /\ pc[1] = "send_message"
  /\ Len(locals[1].triggered_keywords) > 0
  /\ Len(locals[1].triggered_urgency) > 0
  /\ Len(locals[1].monetary_values) > 0
  /\ calls[1].analyze_sentiment = 1
  /\ calls[1].analyze_message_with_ai = 1
  /\ SendsOf(1) = {1}

(***************************************************************************)
(* C10                                                                     *)
(***************************************************************************)
\* C10: two messages with the same text and the same classifier result get
\* the same verdict and the same number of alerts, whatever the sentiment
\* oracle returned for each; an alert shows the sentiment of its message
C10_SentimentDoesNotDecide ==
  /\ \A t, u \in Tasks :
       ( /\ Judged(t) /\ Judged(u)
         /\ message[t] = message[u]
         /\ locals[t].classification_label = locals[u].classification_label
         /\ locals[t].classification_score = locals[u].classification_score ) =>
         /\ verdict[t] = verdict[u]
         /\ Cardinality(SendsOf(t)) = Cardinality(SendsOf(u))
  /\ \A i \in 1..Len(sent) :
       sent[i].text.sentiment =
         << locals[sent[i].task].sentiment_label, locals[sent[i].task].sentiment_score >>

\* the same text and the same classifier result, no signal, one sentiment
\* POSITIVE and the other NEGATIVE: neither is reported
C10_Witness ==
  /\ pc[1] = "done" /\ pc[2] = "done"
  /\ message[1] = Text(<<"o", "k">>)
  /\ message[2] = message[1]
  /\ locals[1].classification_label = NEGATIVE
  /\ locals[2].classification_label = NEGATIVE
  /\ locals[1].sentiment_label = POSITIVE
  /\ locals[2].sentiment_label = NEGATIVE
  /\ verdict[1] = "not suspicious"
  /\ verdict[2] = "not suspicious"
  /\ sent = <<>>

=============================================================================
